---- MODULE Spec2Model ----
(***************************************************************************)
(* A model of the peak-area functions of pyms (src/Peak/Function.py) and   *)
(* of the GC-MS data classes they read (src/GCMS/Class.py).                *)
(*                                                                         *)
(* Conventions.                                                            *)
(*  - Python lists are TLA+ sequences; a Python index i is position i+1.   *)
(*    Indices, offsets and apex positions keep their Python (0-based)      *)
(*    values in the state.                                                 *)
(*  - Intensities are non-negative integers.  half_area computes           *)
(*    edge = float(sum(window))/wide; the model keeps edge3 = wide*edge,   *)
(*    the integer window sum, so every comparison of the code is decided   *)
(*    exactly.                                                             *)
(*  - tol is a percentage given in half-percent units: tol2 = 2*tol, so    *)
(*    the default tol = 0.5 is tol2 = 1 and tol/200.0 = tol2/(2*200).      *)
(*    edge > area*tol  is  (2*200)*edge3 > wide*area*tol2.                 *)
(*  - median values are kept doubled (l_med2 = 2*l_med), so the mean of    *)
(*    two middle offsets stays an integer.                                 *)
(***************************************************************************)
EXTENDS Integers, Sequences, FiniteSets

VARIABLES
    ia,     \* the intensity list handed to ion_area / half_area
    apex,   \* the apex index handed to ion_area
    im,     \* the IntensityMatrix read by the peak functions
    peak,   \* the Peak read by the peak functions
    run,    \* the GCMS_data object (its private fields)
    pc,     \* "ready" before the call, "done" after it
    arg,    \* the operation called and its remaining arguments
    frame,  \* the callee's local variables at its return
    ret     \* the value returned

vars == <<ia, apex, im, peak, run, pc, arg, frame, ret>>

\* the value of a variable the specification at hand does not use
None == "None"

----------------------------------------------------------------------------
(* Bounds of the model *)

\* longest intensity list drawn without any shape
MaxLen == 4
\* longest half (apex included) of a monotone or symmetric channel
MaxHalf == 5
\* largest max_bound argument tried
MaxBound == 2

\* intensity values: zero, two small values and one large enough for the
\* tolerance test to stop a search while the edge is still positive
Intensities == {0, 1, 2, 300}

\* the synthetic symmetric peak of the specification's testable properties
SyntheticPeak == <<0, 0, 5, 10, 20, 10, 5, 0, 0>>
SyntheticApex == (Len(SyntheticPeak) - 1) \div 2

\* max_bound arguments: negative, 0 (unbounded) and 1..MaxBound
MaxBounds == (-1)..MaxBound

\* tol arguments in half-percent units: -0.5, 0, 0.5 (the default) and 100
Tol2s == {-1, 0, 1, 200}

----------------------------------------------------------------------------
(* Python helpers *)

Min(a, b) == IF a < b THEN a ELSE b
Max(a, b) == IF a > b THEN a ELSE b
Abs(a) == IF a < 0 THEN -a ELSE a

RECURSIVE SumSeq(_)
\* sum(s)
SumSeq(s) == IF s = <<>> THEN 0 ELSE Head(s) + SumSeq(Tail(s))

\* s[lo:hi], a Python slice with 0 <= lo: bounds safe
Slice(s, lo, hi) == SubSeq(s, lo + 1, Min(hi, Len(s)))

\* list.reverse()
Reverse(s) == [i \in 1..Len(s) |-> s[Len(s) + 1 - i]]

----------------------------------------------------------------------------
(* src/Peak/Function.py: half_area *)

\* wide = 3
wide == 3
\* tol = tol/200.0
tol_div == 200
\* the default tol = 0.5 of ion_area and half_area, in half-percent units
default_tol2 == 1

\* mutant: the sum is divided by the number of points present (times wide,
\* to the whole below)
edge3_at_mean_of_present(h, index) ==
    (wide * SumSeq(Slice(h, index, index + wide)))
        \div Len(Slice(h, index, index + wide))

\* edge = float(sum(ia[index:index+wide]))/wide, times wide
edge3_at(h, index) == SumSeq(Slice(h, index, index + wide))

\* mutant: the sentinel is the edge itself
initial_old_edge3_no_sentinel(edge3) == edge3

\* old_edge = 2 * edge  (bigger than expected edge)
initial_old_edge3(edge3) == 2 * edge3

\* mutant: a bound of 1 counts as no bound
search_limit_bound_one_ignored(h, max_bound) ==
    IF max_bound <= 1 THEN Len(h) ELSE Min(max_bound + 1, Len(h))

\* mutant: the limit is one point too far
search_limit_one_more(h, max_bound) ==
    IF max_bound < 1 THEN Len(h) ELSE Min(max_bound + 2, Len(h))

\* if max_bound < 1: limit = len(ia) else: limit = min(max_bound+1, len(ia))
search_limit(h, max_bound) ==
    IF max_bound < 1 THEN Len(h) ELSE Min(max_bound + 1, Len(h))

\* mutant: the tolerance is not tested
loop_test_no_tolerance(area, edge3, old_edge3, index, limit, tol2) ==
    /\ edge3 < old_edge3
    /\ index < limit

\* edge > area * tol and edge < old_edge and index < limit
loop_test(area, edge3, old_edge3, index, limit, tol2) ==
    /\ (2 * tol_div) * edge3 > wide * area * tol2
    /\ edge3 < old_edge3
    /\ index < limit

\* if edge >= old_edge: shared = True
shared_flag(edge3, old_edge3) == edge3 >= old_edge3

RECURSIVE half_loop(_, _, _, _, _, _, _)
\* the while loop and the statements after it; returns the locals
half_loop(h, tol2, limit, area, edge3, old_edge3, index) ==
    IF loop_test(area, edge3, old_edge3, index, limit, tol2)
    THEN half_loop(h, tol2, limit, area + h[index + 1],
                   edge3_at(h, index), edge3, index + 1)
    ELSE [area |-> area, index |-> index - 1,
          shared |-> shared_flag(edge3, old_edge3),
          edge3 |-> edge3, old_edge3 |-> old_edge3]

\* half_area(ia, max_bound, tol): the locals at the return statement
half_area_locals(h, max_bound, tol2) ==
    half_loop(h, tol2, search_limit(h, max_bound), h[1],
              edge3_at(h, 0), initial_old_edge3(edge3_at(h, 0)), 1)

\* return area, index, shared
half_area(h, max_bound, tol2) ==
    LET l == half_area_locals(h, max_bound, tol2)
    IN  [area |-> l.area, index |-> l.index, shared |-> l.shared]

----------------------------------------------------------------------------
(* src/Peak/Function.py: ion_area *)

\* mutant: the left half is not reversed
left_half_not_reversed(c, a) == Slice(c, 0, a + 1)

\* lhs = ia[:apex+1]; lhs.reverse()
left_half(c, a) == Reverse(Slice(c, 0, a + 1))

\* rhs = ia[apex:]
right_half(c, a) == Slice(c, a, Len(c))

\* mutant: the apex stays counted in both halves
total_area_apex_twice(l_area, r_area, apex_value) == l_area + r_area

\* r_area -= ia[apex]; l_area + r_area
total_area(l_area, r_area, apex_value) == l_area + (r_area - apex_value)

ion_area(c, a, max_bound, tol2) ==
    LET l == half_area(left_half(c, a), max_bound, tol2)
        r == half_area(right_half(c, a), max_bound, tol2)
    IN  [area |-> total_area(l.area, r.area, c[a + 1]),
         left |-> l.index, right |-> r.index,
         l_share |-> l.shared, r_share |-> r.shared]

----------------------------------------------------------------------------
(* Inputs of the area functions *)

SeqsUpTo(S, n) == UNION {[1..k -> S] : k \in 1..n}

IsMonotone(h) == \A i \in 1..(Len(h) - 1) : h[i + 1] <= h[i]

\* a channel and an apex index in it
Channel(c, a) == [ia |-> c, apex |-> a]

Join(l, r) == Reverse(l) \o Tail(r)

\* every list of at most MaxLen intensities, with every apex in it
GeneralInputs ==
    UNION {{Channel(c, a) : a \in 0..(Len(c) - 1)} :
           c \in SeqsUpTo(Intensities, MaxLen)}

\* channels that do not rise moving away from the apex, on either side
MonotoneHalves == {h \in SeqsUpTo(Intensities, MaxHalf) : IsMonotone(h)}
MonotoneInputs ==
    UNION {{Channel(Join(l, r), Len(l) - 1) :
            r \in {x \in MonotoneHalves : x[1] = l[1]}} :
           l \in MonotoneHalves}

\* channels symmetric about the apex at their centre
SymmetricInputs ==
    {Channel(Join(h, h), Len(h) - 1) : h \in SeqsUpTo(Intensities, MaxHalf)}

AreaInputs ==
    GeneralInputs \cup MonotoneInputs \cup SymmetricInputs
        \cup {Channel(SyntheticPeak, SyntheticApex)}

----------------------------------------------------------------------------
(* The calls of the area functions *)

NoArg == [op |-> "none"]

InitArea ==
    /\ \E c \in AreaInputs : ia = c.ia /\ apex = c.apex
    /\ im = None /\ peak = None /\ run = None
    /\ pc = "ready" /\ arg = NoArg /\ frame = None /\ ret = None

\* ion_area(ia, apex, max_bound, tol)
CallIonArea ==
    /\ pc = "ready"
    /\ \E mb \in MaxBounds, t \in Tol2s :
        /\ arg' = [op |-> "ion_area", max_bound |-> mb, tol2 |-> t]
        /\ frame' = [lhs |-> half_area_locals(left_half(ia, apex), mb, t),
                     rhs |-> half_area_locals(right_half(ia, apex), mb, t)]
        /\ ret' = ion_area(ia, apex, mb, t)
    /\ pc' = "done"
    /\ UNCHANGED <<ia, apex, im, peak, run>>

\* half_area(ia, max_bound, tol)
CallHalfArea ==
    /\ pc = "ready"
    /\ \E mb \in MaxBounds, t \in Tol2s :
        /\ arg' = [op |-> "half_area", max_bound |-> mb, tol2 |-> t]
        /\ frame' = half_area_locals(ia, mb, t)
        /\ ret' = half_area(ia, mb, t)
    /\ pc' = "done"
    /\ UNCHANGED <<ia, apex, im, peak, run>>

NextArea == CallIonArea \/ CallHalfArea

SpecArea == InitArea /\ [][NextArea]_vars

----------------------------------------------------------------------------
(* Vocabulary of the properties of the area functions *)

IonAreaDone == pc = "done" /\ arg.op = "ion_area"
HalfAreaDone == pc = "done" /\ arg.op = "half_area"

\* the values of channel c met walking from the apex a in direction d
\* (-1: left, 1: right), the apex value first
Side(c, a, d) ==
    [k \in 1..(IF d = 1 THEN Len(c) - a ELSE a + 1) |-> c[a + 1 + d * (k - 1)]]

\* sum of c[lo..hi], Python indices, both ends included
WindowSum(c, lo, hi) == SumSeq(SubSeq(c, lo + 1, hi + 1))

\* the returned window [apex-left, apex+right] lies inside the channel
WindowInside == ret.left \in 0..apex /\ ret.right \in 0..(Len(ia) - 1 - apex)

\* number of points a search with this max_bound may look at
PointsSearched(h, max_bound) ==
    IF max_bound < 1 THEN Len(h) ELSE Min(max_bound + 1, Len(h))

HasZero(h) == \E k \in 1..Len(h) : h[k] = 0

\* distance from the apex to the first zero of the side h
FirstZero(h) == CHOOSE k \in 0..(Len(h) - 1) :
                    h[k + 1] = 0 /\ \A j \in 0..(k - 1) : h[j + 1] # 0

\* the side does not rise and reaches 0 inside the search limit
DecreasesToZero(h, max_bound) ==
    /\ IsMonotone(h)
    /\ HasZero(h)
    /\ FirstZero(h) < PointsSearched(h, max_bound)

\* positive apex, both sides decreasing to zero inside the search limit
MonotoneToZero(c, a, max_bound) ==
    /\ c[a + 1] > 0
    /\ DecreasesToZero(Side(c, a, -1), max_bound)
    /\ DecreasesToZero(Side(c, a, 1), max_bound)

\* four consecutive equal positive values
LongPlateau(h) == \E k \in 1..(Len(h) - 3) : h[k] > 0 /\ h[k] = h[k + 3]

\* the smoothed edge at offset k is at most area*tol/200, area the sum of
\* h[0..k]: the tolerance is satisfied there
ToleranceMetAt(h, k, tol2) ==
    (2 * tol_div) * SumSeq(SubSeq(h, k + 1, Min(k + wide, Len(h))))
        <= wide * WindowSum(h, 0, k) * tol2

\* the channel is symmetric about its apex, which is its centre
Symmetric(c, a) ==
    /\ Len(c) = 2 * a + 1
    /\ \A k \in 1..a : c[a + 1 - k] = c[a + 1 + k]

----------------------------------------------------------------------------
(* Properties of ion_area and half_area *)

\* C1: the area returned by ion_area is the sum of ia[apex-left .. apex+right]
\* inclusive, the apex value counted exactly once, for every max_bound and tol
C1_AreaIsWindowSum ==
    IonAreaDone =>
        /\ WindowInside
        /\ ret.area = WindowSum(ia, apex - ret.left, apex + ret.right)

\* a call whose window extends on both sides of a positive apex
C1_Witness ==
    /\ IonAreaDone
    /\ ia[apex + 1] > 0 /\ ret.left > 0 /\ ret.right > 0
    /\ ret.area = WindowSum(ia, apex - ret.left, apex + ret.right)

C3_OffsetAtOrPastZero ==
    (IonAreaDone /\ arg.tol2 = default_tol2
        /\ MonotoneToZero(ia, apex, arg.max_bound))
    => /\ ret.left \in {FirstZero(Side(ia, apex, -1)),
                        FirstZero(Side(ia, apex, -1)) + 1}
       /\ ret.right \in {FirstZero(Side(ia, apex, 1)),
                         FirstZero(Side(ia, apex, 1)) + 1}

\* the offset k of side h is at most z, and below z only where the tolerance
\* was already met or the side was flagged shared
OffsetUpToZero(h, k, shared) ==
    /\ k <= FirstZero(h)
    /\ k < FirstZero(h) => (ToleranceMetAt(h, k, default_tol2) \/ shared)

\* C3 amended: each offset is at most z, never past the first zero; it equals
\* z unless the search stopped earlier because the smoothed edge was already
\* at most area*tol/200 or had stopped decreasing (the side is flagged shared)
C3_OffsetUpToZero ==
    (IonAreaDone /\ arg.tol2 = default_tol2
        /\ MonotoneToZero(ia, apex, arg.max_bound))
    => /\ OffsetUpToZero(Side(ia, apex, -1), ret.left, ret.l_share)
       /\ OffsetUpToZero(Side(ia, apex, 1), ret.right, ret.r_share)

\* a channel whose right offset is exactly z and whose left offset stops
\* short of z on the tolerance
C3_Witness ==
    /\ IonAreaDone /\ arg.tol2 = default_tol2
    /\ MonotoneToZero(ia, apex, arg.max_bound)
    /\ ret.right = FirstZero(Side(ia, apex, 1)) /\ ret.right > 1
    /\ ret.left < FirstZero(Side(ia, apex, -1)) /\ ~ret.l_share

\* C4: on a channel symmetric about its apex, tol = 0.5 and no bound, the
\* offsets differ by at most 1 and the shared flags are equal; on the
\* synthetic peak [0,0,5,10,20,10,5,0,0] with apex 4 both flags are false and
\* the area is the sum of the intensities inside the returned window
C4_SymmetricPeak ==
    (IonAreaDone /\ arg.tol2 = default_tol2 /\ arg.max_bound < 1
        /\ Symmetric(ia, apex))
    => /\ Abs(ret.left - ret.right) <= 1
       /\ ret.l_share = ret.r_share
       /\ (ia = SyntheticPeak /\ apex = SyntheticApex) =>
            /\ ~ret.l_share /\ ~ret.r_share
            /\ WindowInside
            /\ ret.area = WindowSum(ia, apex - ret.left, apex + ret.right)

\* the synthetic peak, searched: offsets 3 and 3, area 50
C4_Witness ==
    /\ IonAreaDone /\ arg.tol2 = default_tol2 /\ arg.max_bound = 0
    /\ ia = SyntheticPeak /\ apex = SyntheticApex
    /\ ret.left = 3 /\ ret.right = 3 /\ ret.area = 50

\* C5 as stated, at the default tol = 0.5: half_area returns shared = true
\* only when the final edge is strictly greater than area*tol/200, all-zero
\* channels and channels whose first smoothing window is 0 included
C5_SharedOnlyAboveTolerance ==
    (HalfAreaDone /\ arg.tol2 = default_tol2 /\ ret.shared) =>
        (2 * tol_div) * frame.edge3 > wide * ret.area * arg.tol2

\* C6: with max_bound >= 1 the offset returned by half_area is at most
\* max_bound and the area sums ia[0..offset]; with max_bound < 1 only the
\* length of the list limits the search
C6_BoundRespected ==
    HalfAreaDone =>
        /\ ret.index \in 0..(Len(ia) - 1)
        /\ ret.area = WindowSum(ia, 0, ret.index)
        /\ arg.max_bound >= 1 => ret.index <= arg.max_bound
        /\ arg.max_bound < 1 =>
            /\ ret = half_area(ia, Len(ia), arg.tol2)
            /\ ret.index < Len(ia) - 1 =>
                 ~(/\ (2 * tol_div) * frame.edge3 > wide * ret.area * arg.tol2
                   /\ frame.edge3 < frame.old_edge3)

\* a search cut by max_bound that runs further without it
C6_Witness ==
    /\ HalfAreaDone
    /\ arg.max_bound >= 1 /\ ret.index = arg.max_bound
    /\ half_area(ia, 0, arg.tol2).index > arg.max_bound

----------------------------------------------------------------------------
(* The IntensityMatrix and the Peak read by peak_sum_area and median_bounds *)

\* number of scans (rows) of the matrices drawn
NumScans == 3

\* the binned masses (columns) of the matrices drawn
PeakMasses == <<50, 51>>
\* the intensities of a matrix cell and of a peak's mass spectrum
CellIntensities == {0, 1}

\* retention times 2, 4, ..: ascending, with whole times half way between
PeakTimeList == [i \in 1..NumScans |-> 2 * i]

\* peak.get_pt_bounds(): no stored tuple (<<>>), or (left, apex, right)
NoBounds == <<>>
StoredBounds == {<<0, s, NumScans - 1>> : s \in 0..(NumScans - 1)}

\* is_list(tmp)
is_list(tmp) == tmp # NoBounds

\* first index whose time is nearest to t, scanning left to right from ix
\* with the best match so far (strict "<")
RECURSIVE nearest_scan(_, _, _, _)
nearest_scan(tl, t, ix, best) ==
    IF ix >= Len(tl) THEN best
    ELSE nearest_scan(tl, t, ix + 1,
             IF Abs(t - tl[ix + 1]) < Abs(t - tl[best + 1]) THEN ix ELSE best)

\* im.get_index_at_time(rt), for rt inside the matrix's time bounds
im_get_index_at_time(m, t) == nearest_scan(m.time_list, t, 0, 0)

\* ia = [ mat[scan][ii] for scan in xrange(len(mat)) ]
column(mat, ii) == [scan \in 1..Len(mat) |-> mat[scan][ii + 1]]

\* mutant: channels of intensity 0 contribute too
contributes_all(v) == v >= 0

\* ms.mass_spec[ii] > 0
contributes(v) == v > 0

\* mass_ii = [ ii for ii in xrange(len(ms.mass_list)) if ms.mass_spec[ii] > 0 ]
mass_ii(ms) ==
    LET Positive(ii) == contributes(ms.mass_spec[ii + 1])
    IN  SelectSeq([k \in 1..Len(ms.mass_list) |-> k - 1], Positive)

----------------------------------------------------------------------------
(* src/Peak/Function.py: peak_sum_area *)

RECURSIVE sum_area_loop(_, _, _, _, _)
\* for ii in mass_ii: ... sum_area += area
sum_area_loop(mat, a, max_bound, iis, sum_area) ==
    IF iis = <<>> THEN sum_area
    ELSE sum_area_loop(mat, a, max_bound, Tail(iis),
             sum_area + ion_area(column(mat, Head(iis)), a, max_bound,
                                 default_tol2).area)

peak_sum_area(m, p, max_bound) ==
    sum_area_loop(m.intensity_matrix, im_get_index_at_time(m, p.rt),
                  max_bound, mass_ii(p.ms), 0)

----------------------------------------------------------------------------
(* src/Peak/Function.py: median_bounds *)

\* if is_list(tmp) and apex-1 < tmp[1] and tmp[1] < apex+1: apex = tmp[1]
median_apex(a, tmp) ==
    IF is_list(tmp) /\ a - 1 < tmp[2] /\ tmp[2] < a + 1 THEN tmp[2] ELSE a

\* mutant: every offset is collected
collects_all(shared, side_share) == TRUE

\* if shared or not l_share  /  if shared or not r_share
collects(shared, side_share) == shared \/ ~side_share

RECURSIVE bounds_loop(_, _, _, _, _, _)
\* for ii in mass_ii: ... left_list.append(left) ... right_list.append(right)
bounds_loop(mat, a, shared, iis, left_list, right_list) ==
    IF iis = <<>> THEN [left_list |-> left_list, right_list |-> right_list]
    ELSE LET r == ion_area(column(mat, Head(iis)), a, 0, default_tol2)
         IN  bounds_loop(mat, a, shared, Tail(iis),
                 IF collects(shared, r.l_share)
                     THEN Append(left_list, r.left) ELSE left_list,
                 IF collects(shared, r.r_share)
                     THEN Append(right_list, r.right) ELSE right_list)

\* the k-th smallest value (k from 1) of the non-empty list v
kth_smallest(v, k) ==
    CHOOSE x \in {v[i] : i \in 1..Len(v)} :
        /\ Cardinality({i \in 1..Len(v) : v[i] < x}) < k
        /\ k <= Cardinality({i \in 1..Len(v) : v[i] <= x})

\* median(v), doubled: the middle value, or the mean of the two middle ones
median2(v) ==
    IF Len(v) % 2 = 0
    THEN kth_smallest(v, Len(v) \div 2) + kth_smallest(v, Len(v) \div 2 + 1)
    ELSE 2 * kth_smallest(v, (Len(v) + 1) \div 2)

\* l_med = 0; if len(left_list) > 0: l_med = median(left_list), doubled
median_or_zero2(v) == IF Len(v) > 0 THEN median2(v) ELSE 0

\* median_bounds(im, peak, shared): the locals at the return statement
median_bounds_locals(m, p, shared) ==
    LET a == median_apex(im_get_index_at_time(m, p.rt), p.pt_bounds)
        l == bounds_loop(m.intensity_matrix, a, shared, mass_ii(p.ms),
                         <<>>, <<>>)
    IN  [apex |-> a, left_list |-> l.left_list, right_list |-> l.right_list]

\* return l_med, r_med  (doubled)
median_bounds(m, p, shared) ==
    LET l == median_bounds_locals(m, p, shared)
    IN  [l_med2 |-> median_or_zero2(l.left_list),
         r_med2 |-> median_or_zero2(l.right_list)]

----------------------------------------------------------------------------
(* The calls of the peak functions *)

Matrices == [1..NumScans -> [1..Len(PeakMasses) -> CellIntensities]]

InitPeak ==
    /\ \E mat \in Matrices :
          im = [time_list |-> PeakTimeList, mass_list |-> PeakMasses,
                intensity_matrix |-> mat]
    /\ \E t \in PeakTimeList[1]..PeakTimeList[NumScans],
          spec \in [1..Len(PeakMasses) -> CellIntensities],
          b \in {NoBounds} \cup StoredBounds :
          peak = [rt |-> t,
                  ms |-> [mass_list |-> PeakMasses, mass_spec |-> spec],
                  pt_bounds |-> b]
    /\ ia = None /\ apex = None /\ run = None
    /\ pc = "ready" /\ arg = NoArg /\ frame = None /\ ret = None

\* peak_sum_area(im, peak, max_bound)
CallPeakSumArea ==
    /\ pc = "ready"
    /\ \E mb \in MaxBounds :
        /\ arg' = [op |-> "peak_sum_area", max_bound |-> mb]
        /\ frame' = [apex |-> im_get_index_at_time(im, peak.rt),
                     mass_ii |-> mass_ii(peak.ms)]
        /\ ret' = peak_sum_area(im, peak, mb)
    /\ pc' = "done"
    /\ UNCHANGED <<ia, apex, im, peak, run>>

\* median_bounds(im, peak, shared)
CallMedianBounds ==
    /\ pc = "ready"
    /\ \E sh \in BOOLEAN :
        /\ arg' = [op |-> "median_bounds", shared |-> sh]
        /\ frame' = median_bounds_locals(im, peak, sh)
        /\ ret' = median_bounds(im, peak, sh)
    /\ pc' = "done"
    /\ UNCHANGED <<ia, apex, im, peak, run>>

NextPeak == CallPeakSumArea \/ CallMedianBounds

SpecPeak == InitPeak /\ [][NextPeak]_vars

----------------------------------------------------------------------------
(* Properties of peak_sum_area and median_bounds *)

PeakSumAreaDone == pc = "done" /\ arg.op = "peak_sum_area"
MedianBoundsDone == pc = "done" /\ arg.op = "median_bounds"

\* the lowest index whose stored time is nearest to t
NearestIndex(tl, t) ==
    CHOOSE i \in 0..(Len(tl) - 1) :
        /\ \A j \in 0..(Len(tl) - 1) : Abs(t - tl[i + 1]) <= Abs(t - tl[j + 1])
        /\ \A j \in 0..(i - 1) : Abs(t - tl[i + 1]) < Abs(t - tl[j + 1])

\* the channels whose intensity in the peak's mass spectrum is positive
PositiveChannels(p) ==
    {ii \in 0..(Len(p.ms.mass_spec) - 1) : p.ms.mass_spec[ii + 1] > 0}

RECURSIVE AreaOver(_, _, _, _)
\* sum over the channels of S, in no fixed order, of their ion_area areas
AreaOver(S, mat, a, max_bound) ==
    IF S = {} THEN 0
    ELSE LET ii == CHOOSE x \in S : \A y \in S : x >= y
         IN  ion_area(column(mat, ii), a, max_bound, default_tol2).area
                 + AreaOver(S \ {ii}, mat, a, max_bound)

\* the matrix and the peak with their mass channels in reverse order
ReversedMatrix(m) ==
    [m EXCEPT !.mass_list = Reverse(@),
              !.intensity_matrix = [s \in 1..Len(@) |-> Reverse(@[s])]]
ReversedPeak(p) ==
    [p EXCEPT !.ms = [mass_list |-> Reverse(@.mass_list),
                      mass_spec |-> Reverse(@.mass_spec)]]

\* C7: peak_sum_area is the sum, over exactly the channels whose intensity in
\* the peak's mass spectrum is strictly positive, of the ion_area area of the
\* channel's full column at the nearest-time apex; it does not depend on the
\* order of the channels and is 0 when no channel is positive
C7_SumOverPositiveChannels ==
    PeakSumAreaDone =>
        /\ ret = AreaOver(PositiveChannels(peak), im.intensity_matrix,
                          NearestIndex(im.time_list, peak.rt), arg.max_bound)
        /\ ret = peak_sum_area(ReversedMatrix(im), ReversedPeak(peak),
                               arg.max_bound)
        /\ PositiveChannels(peak) = {} => ret = 0

\* one channel contributes a positive area, the other one is left out although
\* its column has a positive area too, and the retention time is not a stored
\* time
C7_Witness ==
    /\ PeakSumAreaDone
    /\ Cardinality(PositiveChannels(peak)) = 1
    /\ ret > 0
    /\ \E ii \in 0..(Len(PeakMasses) - 1) :
          /\ ii \notin PositiveChannels(peak)
          /\ ion_area(column(im.intensity_matrix, ii), frame.apex,
                      arg.max_bound, default_tol2).area > 0
    /\ \A i \in 1..NumScans : im.time_list[i] # peak.rt

\* C8 as stated: with a stored boundary tuple (left, s, right) and nearest-time
\* apex a, for every s with |s - a| <= 1 the ion_area searches run at apex s
C8_StoredApexPreferred ==
    (MedianBoundsDone /\ is_list(peak.pt_bounds)
        /\ PositiveChannels(peak) # {}
        /\ Abs(peak.pt_bounds[2] - NearestIndex(im.time_list, peak.rt)) <= 1)
    => frame.apex = peak.pt_bounds[2]

\* the channels whose offset on one side is collected: Flag(r) is the shared
\* flag of that side in the ion_area result r
Collected(Flag(_)) ==
    {ii \in PositiveChannels(peak) :
        arg.shared \/ ~Flag(ion_area(column(im.intensity_matrix, ii),
                                     frame.apex, 0, default_tol2))}

\* list holds, in channel order, the offsets Offset(r) of the channels of S
HoldsOffsets(list, S, Offset(_)) ==
    /\ Len(list) = Cardinality(S)
    /\ \A ii \in S :
          list[Cardinality({j \in S : j <= ii})]
              = Offset(ion_area(column(im.intensity_matrix, ii),
                                frame.apex, 0, default_tol2))

LeftFlag(r) == r.l_share
RightFlag(r) == r.r_share
LeftOffset(r) == r.left
RightOffset(r) == r.right

\* C9: median_bounds with shared = false collects a channel's left (right)
\* offset only if its left (right) shared flag is false, with shared = true
\* every positive-intensity channel contributes both; a side whose collected
\* list is empty returns median 0
C9_SharedOffsetsExcluded ==
    MedianBoundsDone =>
        /\ HoldsOffsets(frame.left_list, Collected(LeftFlag), LeftOffset)
        /\ HoldsOffsets(frame.right_list, Collected(RightFlag), RightOffset)
        /\ Collected(LeftFlag) = {} => ret.l_med2 = 0
        /\ Collected(RightFlag) = {} => ret.r_med2 = 0
        /\ arg.shared =>
              /\ Len(frame.left_list) = Cardinality(PositiveChannels(peak))
              /\ Len(frame.right_list) = Cardinality(PositiveChannels(peak))

\* shared = false, two positive channels: one left offset is kept, the other
\* is dropped as shared, and every right offset is dropped, so the right
\* median is 0
C9_Witness ==
    /\ MedianBoundsDone /\ ~arg.shared
    /\ Cardinality(PositiveChannels(peak)) = 2
    /\ Len(frame.left_list) = 1
    /\ frame.right_list = <<>> /\ ret.r_med2 = 0

----------------------------------------------------------------------------
(* src/GCMS/Class.py: GCMS_data *)

\* retention times are drawn from -MaxTime..MaxTime
MaxTime == 2
\* longest time list drawn
MaxTimes == 3

TimeValues == (-MaxTime)..MaxTime
\* the times asked for: every stored value and one step outside on each side
QueryTimes == (-MaxTime - 1)..(MaxTime + 1)

\* Python values returned by the lookups
PyInt(i) == [type |-> "int", value |-> i]
PyNone == [type |-> "NoneType"]
PyError == [type |-> "error"]

RECURSIVE MinOf(_)
\* min(time_list)
MinOf(s) == IF Len(s) = 1 THEN s[1] ELSE Min(Head(s), MinOf(Tail(s)))
RECURSIVE MaxOf(_)
\* max(time_list)
MaxOf(s) == IF Len(s) = 1 THEN s[1] ELSE Max(Head(s), MaxOf(Tail(s)))

\* GCMS_data.__init__: the private fields set from time_list
GCMS_data(time_list) ==
    [time_list |-> time_list,
     min_rt |-> MinOf(time_list),
     max_rt |-> MaxOf(time_list)]

RECURSIVE index_loop(_, _, _, _, _)
\* for ix in range(len(time_list)): ... ; return ix_match
index_loop(time_list, time, ix, time_diff_min, ix_match) ==
    IF ix >= Len(time_list) THEN ix_match
    ELSE LET time_diff == Abs(time - time_list[ix + 1])
         IN  IF time_diff < time_diff_min
             THEN index_loop(time_list, time, ix + 1, time_diff, PyInt(ix))
             ELSE index_loop(time_list, time, ix + 1, time_diff_min, ix_match)

\* GCMS_data.get_index_at_time(time)
get_index_at_time(self, time) ==
    IF time < self.min_rt \/ time > self.max_rt
    THEN PyError
    ELSE index_loop(self.time_list, time, 0, self.max_rt, PyNone)

InitRun ==
    /\ \E tl \in SeqsUpTo(TimeValues, MaxTimes) : run = GCMS_data(tl)
    /\ ia = None /\ apex = None /\ im = None /\ peak = None
    /\ pc = "ready" /\ arg = NoArg /\ frame = None /\ ret = None

\* run.get_index_at_time(time)
CallGetIndexAtTime ==
    /\ pc = "ready"
    /\ \E t \in QueryTimes :
        /\ arg' = [op |-> "get_index_at_time", time |-> t]
        /\ ret' = get_index_at_time(run, t)
    /\ pc' = "done"
    /\ UNCHANGED <<ia, apex, im, peak, run, frame>>

NextRun == CallGetIndexAtTime

SpecRun == InitRun /\ [][NextRun]_vars

----------------------------------------------------------------------------
(* Properties of GCMS_data *)

GetIndexAtTimeDone == pc = "done" /\ arg.op = "get_index_at_time"

\* C10 as stated: for every non-empty time list and every time with
\* minRT <= time <= maxRT the lookup returns an index i in [0, R), never a
\* missing value, with |time - t[i]| <= |time - t[j]| for every index j;
\* also for single-sample lists and lists whose maximum is 0 or negative
C10_NearestIndexReturned ==
    (GetIndexAtTimeDone
        /\ run.min_rt <= arg.time /\ arg.time <= run.max_rt)
    => /\ ret.type = "int"
       /\ ret.value \in 0..(Len(run.time_list) - 1)
       /\ \A j \in 1..Len(run.time_list) :
             Abs(arg.time - run.time_list[ret.value + 1])
                 <= Abs(arg.time - run.time_list[j])

----------------------------------------------------------------------------
(* src/GCMS/Class.py: IntensityMatrix construction and the mass lookup *)

\* IntensityMatrix.__init__: the sanity checks and the private fields; an
\* empty list fails at its [0]
IntensityMatrix(time_list, mass_list, intensity_matrix) ==
    IF \/ time_list = <<>> \/ mass_list = <<>>
       \/ intensity_matrix = <<>> \/ intensity_matrix[1] = <<>>
    THEN PyError
    ELSE IF Len(time_list) # Len(intensity_matrix) THEN PyError
    ELSE IF Len(mass_list) # Len(intensity_matrix[1]) THEN PyError
    ELSE [type |-> "IntensityMatrix",
          time_list |-> time_list,
          mass_list |-> mass_list,
          intensity_matrix |-> intensity_matrix,
          min_mass |-> MinOf(mass_list),
          max_mass |-> MaxOf(mass_list)]

RECURSIVE mass_loop(_, _, _, _, _)
\* for i in range(len(self.__mass_list)): ... ; return index
mass_loop(mass_list, mass, i, best, index) ==
    IF i >= Len(mass_list) THEN index
    ELSE LET tmp == Abs(mass_list[i + 1] - mass)
         IN  IF tmp < best
             THEN mass_loop(mass_list, mass, i + 1, tmp, i)
             ELSE mass_loop(mass_list, mass, i + 1, best, index)

\* IntensityMatrix.get_index_of_mass(mass)
get_index_of_mass(self, mass) ==
    PyInt(mass_loop(self.mass_list, mass, 0, self.max_mass, 0))

\* a matrix of one scan over the mass axis ml, all intensities 0
OneScanMatrix(ml) == IntensityMatrix(<<0>>, ml, <<[j \in 1..Len(ml) |-> 0]>>)

\* one value list serves as the time axis of the run and as the mass axis
\* of the matrix
InitLookup ==
    /\ \E l \in SeqsUpTo(TimeValues, MaxTimes) :
        /\ run = GCMS_data(l)
        /\ im = OneScanMatrix(l)
    /\ ia = None /\ apex = None /\ peak = None
    /\ pc = "ready" /\ arg = NoArg /\ frame = None /\ ret = None

\* im.get_index_of_mass(mass)
CallGetIndexOfMass ==
    /\ pc = "ready"
    /\ \E m \in QueryTimes :
        /\ arg' = [op |-> "get_index_of_mass", mass |-> m]
        /\ ret' = get_index_of_mass(im, m)
    /\ pc' = "done"
    /\ UNCHANGED <<ia, apex, im, peak, run, frame>>

NextLookup == CallGetIndexAtTime \/ CallGetIndexOfMass

SpecLookup == InitLookup /\ [][NextLookup]_vars

----------------------------------------------------------------------------
(* Properties of the two nearest-value lookups *)

GetIndexOfMassDone == pc = "done" /\ arg.op = "get_index_of_mass"

\* the indices (from 0) of the stored values nearest to q
NearestSet(list, q) ==
    {i \in 0..(Len(list) - 1) :
        \A j \in 1..Len(list) : Abs(q - list[i + 1]) <= Abs(q - list[j])}

\* q lies exactly between two different stored values, both nearest
Equidistant(list, q) ==
    \E i, j \in NearestSet(list, q) : list[i + 1] # list[j + 1]

LowestOf(S) == CHOOSE i \in S : \A j \in S : i <= j

\* C11 as stated: for a query exactly equidistant between two stored
\* values, the nearest-time lookup and the nearest-mass lookup both return
\* the lower of the two indices
C11_TieGoesToLowerIndex ==
    /\ (GetIndexAtTimeDone /\ Equidistant(run.time_list, arg.time))
        => ret = PyInt(LowestOf(NearestSet(run.time_list, arg.time)))
    /\ (GetIndexOfMassDone /\ Equidistant(im.mass_list, arg.mass))
        => ret = PyInt(LowestOf(NearestSet(im.mass_list, arg.mass)))

\* C12 as stated: the nearest-time lookup fails for every time below minRT
\* or above maxRT, and get_index_of_mass fails for every mass below the
\* minimum or above the maximum binned mass instead of returning an index
C12_OutOfRangeLookupFails ==
    /\ (GetIndexAtTimeDone
            /\ (arg.time < run.min_rt \/ arg.time > run.max_rt))
        => ret = PyError
    /\ (GetIndexOfMassDone
            /\ (arg.mass < im.min_mass \/ arg.mass > im.max_mass))
        => ret = PyError

----------------------------------------------------------------------------
(* src/GCMS/Class.py: IntensityMatrix queries, IonChromatogram, MassSpectrum *)

\* most scans (rows) and most masses (columns) of a drawn grid
MaxRows == 2
MaxCols == 2

\* a number kept exactly: num/den
Rat(num, den) == [num |-> num, den |-> den]

\* identity of a Python list: a list stored in the matrix is named by its
\* field (and row), the k-th list a call creates is New(k)
Ref(field, row) == [field |-> field, row |-> row]
New(k) == Ref("new", k)
PyList(id, items) == [type |-> "list", id |-> id, items |-> items]
PyNum(v) == [type |-> "number", value |-> v]

\* copy.deepcopy(l) and numpy.array(items): a new list with equal items
deepcopy(l, k) == PyList(New(k), l.items)

\* self.__time_list, self.__mass_list, self.__intensity_matrix[index]
self_time_list(self) == PyList(Ref("time_list", 0), self.time_list)
self_mass_list(self) == PyList(Ref("mass_list", 0), self.mass_list)
self_row(self, index) ==
    PyList(Ref("intensity_matrix", index), self.intensity_matrix[index + 1])

\* row[index]: Python takes a negative index from the end
in_range(row, index) == -Len(row) <= index /\ index < Len(row)
subscript(row, index) ==
    IF index >= 0 THEN row[index + 1] ELSE row[Len(row) + index + 1]

\* a - b and a + b on exact numbers
RatSub(a, b) == Rat(a.num * b.den - b.num * a.den, a.den * b.den)
RatAdd(a, b) == Rat(a.num * b.den + b.num * a.den, a.den * b.den)

RECURSIVE td_sum(_, _)
\* the sum of td_list, td = time_list[ii+1] - time_list[ii]
td_sum(time_list, ii) ==
    IF ii >= Len(time_list) - 1 THEN Rat(0, 1)
    ELSE RatAdd(RatSub(time_list[ii + 2], time_list[ii + 1]),
                td_sum(time_list, ii + 1))

\* IonChromatogram.__calc_time_step: td_array.mean(), count 0 gives nan
calc_time_step(time_list) ==
    [sum |-> td_sum(time_list, 0), count |-> Len(time_list) - 1]

\* IonChromatogram.__init__
IonChromatogram_no_length_check(int_array, time_list, mass) ==
    IF time_list.items = <<>> THEN PyError
    ELSE [type |-> "IonChromatogram",
          ia |-> int_array,
          time_list |-> time_list,
          mass |-> mass,
          time_step |-> calc_time_step(time_list.items)]
IonChromatogram(int_array, time_list, mass) ==
    IF time_list.items = <<>> THEN PyError
    ELSE IF Len(int_array.items) # Len(time_list.items) THEN PyError
    ELSE [type |-> "IonChromatogram",
          ia |-> int_array,
          time_list |-> time_list,
          mass |-> mass,
          time_step |-> calc_time_step(time_list.items)]

\* the names MassSpectrum.__init__ can read: its parameters and the
\* names the module binds
ModuleNames ==
    {"numpy", "math", "copy", "error", "is_str", "is_int", "is_array",
     "is_list", "is_number", "open_for_writing", "close_for_writing",
     "GCMS_data", "Scan", "IntensityMatrix", "IonChromatogram",
     "MassSpectrum"}
MassSpectrumNames == {"self", "mass_list", "intensity_list"} \cup ModuleNames

\* the name line 832 takes the length of
length_checked == "intensity_matrix"

\* MassSpectrum.__init__: reading a name that is not bound raises NameError
MassSpectrum(mass_list, intensity_list) ==
    IF mass_list.items = <<>> \/ intensity_list.items = <<>> THEN PyError
    ELSE IF length_checked \notin MassSpectrumNames THEN PyError
    ELSE IF Len(mass_list.items) # Len(intensity_list.items) THEN PyError
    ELSE [type |-> "MassSpectrum",
          mass_list |-> mass_list,
          mass_spec |-> intensity_list]

\* IntensityMatrix.get_mass_list
get_mass_list_no_copy(self) == self_mass_list(self)
get_mass_list(self) == deepcopy(self_mass_list(self), 1)

\* IntensityMatrix.get_scan_at_index
get_scan_at_index(self, index) ==
    IF index < 0 \/ index >= Len(self.intensity_matrix) THEN PyError
    ELSE deepcopy(self_row(self, index), 1)

\* IntensityMatrix.get_ms_at_index
get_ms_at_index(self, index) ==
    LET scan == get_scan_at_index(self, index)
    IN  IF scan = PyError THEN PyError
        ELSE MassSpectrum(self_mass_list(self), scan)

\* IntensityMatrix.get_mass_at_index
get_mass_at_index_no_lower_check(self, index) ==
    IF ~in_range(self.mass_list, index) THEN PyError
    ELSE PyInt(subscript(self.mass_list, index))
get_mass_at_index(self, index) ==
    IF index < 0 \/ index >= Len(self.mass_list) THEN PyError
    ELSE PyInt(self.mass_list[index + 1])

\* IntensityMatrix.get_ic_at_index: an IndexError in the loop over the rows
\* ends in error
get_ic_at_index(self, index) ==
    LET rows == self.intensity_matrix
    IN  IF \E i \in 1..Len(rows) : ~in_range(rows[i], index) THEN PyError
        ELSE LET int_array == PyList(New(1), [i \in 1..Len(rows) |->
                                          subscript(rows[i], index)])
                 mass == get_mass_at_index(self, index)
                 rt == deepcopy(self_time_list(self), 2)
             IN  IF mass = PyError THEN PyError
                 ELSE IonChromatogram(int_array, rt, mass)

\* IntensityMatrix.get_ic_at_mass: class IntensityMatrix defines no
\* get_tic, so self.get_tic() raises AttributeError
get_ic_at_mass(self, mass) ==
    IF mass = PyNone THEN PyError
    ELSE IF mass.value < self.min_mass \/ mass.value > self.max_mass
         THEN PyError
    ELSE get_ic_at_index(self, get_index_of_mass(self, mass.value).value)

\* IonChromatogram.get_intensity_at_index
get_intensity_at_index(self, ix) ==
    IF ix < 0 \/ ix > Len(self.ia.items) - 1 THEN PyError
    ELSE PyInt(self.ia.items[ix + 1])

\* IonChromatogram.get_time_at_index
get_time_at_index(self, ix) ==
    IF ix < 0 \/ ix > Len(self.time_list.items) - 1 THEN PyError
    ELSE PyNum(self.time_list.items[ix + 1])

\* "%8.4f" of a time that is not negative: ten-thousandths, to nearest
format_8_4f(x) == (2 * 10000 * x.num + x.den) \div (2 * x.den)

RECURSIVE round_digits(_, _)
\* "%#.6e" of an intensity that is not negative: seven significant digits
round_digits(v, p) ==
    IF v < 10000000 * p THEN ((2 * v + p) \div (2 * p)) * p
    ELSE round_digits(v, 10 * p)
format_6e(v) == round_digits(v, 1)

\* time_list = copy.deepcopy(self.__time_list)
write_time_list_no_copy(self) == self.time_list
write_time_list(self) == deepcopy(self.time_list, 3)

\* time_list[ii] = time_list[ii]/60.0 for every ii, if minutes
in_minutes(time_list, minutes) ==
    IF minutes
    THEN [time_list EXCEPT !.items =
             [ii \in 1..Len(time_list.items) |->
                 Rat(time_list.items[ii].num, time_list.items[ii].den * 60)]]
    ELSE time_list

\* IonChromatogram.write(file_name, minutes): the chromatogram after the
\* call, the local time_list and the lines written
write(self, minutes) ==
    LET time_list == in_minutes(write_time_list(self), minutes)
    IN  [self |-> IF time_list.id = self.time_list.id
                  THEN [self EXCEPT !.time_list = time_list]
                  ELSE self,
         time_list |-> time_list,
         file |-> [ii \in 1..Len(time_list.items) |->
                      [time |-> format_8_4f(time_list.items[ii]),
                       intensity |-> format_6e(self.ia.items[ii])]]]

----------------------------------------------------------------------------
(* Construction of a matrix, its queries, and a caller that writes into
   what a query returned *)

\* retention times 30, 60, .. seconds; masses 1, 2, ..; row i of the grid
\* holds 10*i + 1, 10*i + 2, .., so every cell differs
MatrixTimes(n) == [i \in 1..n |-> Rat(30 * i, 1)]
MatrixMasses(c) == [j \in 1..c |-> j]
GridRow(i, n) == [j \in 1..n |-> 10 * i + j]

\* grids of 0..MaxRows rows, every row of its own length 0..MaxCols
Grids ==
    UNION {{[i \in 1..r |-> GridRow(i, lens[i])] :
               lens \in [1..r -> 0..MaxCols]} : r \in 0..MaxRows}

\* the indices asked for: every valid one, negative ones, one past the end
Indices == (-Max(MaxRows, MaxCols) - 1)..Max(MaxRows, MaxCols)
\* the masses asked for: None, every stored one, one outside on each side
QueryMasses == {PyNone} \cup {PyInt(m) : m \in 0..(MaxCols + 1)}

InitMatrix ==
    /\ \E n \in 0..MaxRows, c \in 0..MaxCols, g \in Grids :
          arg = [op |-> "IntensityMatrix",
                 time_list |-> MatrixTimes(n),
                 mass_list |-> MatrixMasses(c),
                 intensity_matrix |-> g]
    /\ im = PyNone
    /\ ia = None /\ apex = None /\ peak = None /\ run = None
    /\ pc = "new" /\ frame = None /\ ret = None

\* im = IntensityMatrix(time_list, mass_list, intensity_matrix)
ConstructMatrix ==
    /\ pc = "new"
    /\ im' = IntensityMatrix(arg.time_list, arg.mass_list,
                             arg.intensity_matrix)
    /\ pc' = IF im'.type = "IntensityMatrix" THEN "ready" ELSE "failed"
    /\ UNCHANGED <<ia, apex, peak, run, arg, frame, ret>>

\* a call of a method of im with arguments a that returns r
MatrixCall(a, r) ==
    /\ pc \in {"ready", "done"}
    /\ arg' = a /\ ret' = r /\ frame' = [self |-> im]
    /\ pc' = "done"
    /\ UNCHANGED <<ia, apex, im, peak, run>>

CallGetMassList ==
    MatrixCall([op |-> "get_mass_list"], get_mass_list(im))

CallGetScanAtIndex ==
    \E index \in Indices :
        MatrixCall([op |-> "get_scan_at_index", index |-> index],
                   get_scan_at_index(im, index))

CallGetMsAtIndex ==
    \E index \in Indices :
        MatrixCall([op |-> "get_ms_at_index", index |-> index],
                   get_ms_at_index(im, index))

CallGetIcAtIndex ==
    \E index \in Indices :
        MatrixCall([op |-> "get_ic_at_index", index |-> index],
                   get_ic_at_index(im, index))

CallGetIcAtMass ==
    \E mass \in QueryMasses :
        MatrixCall([op |-> "get_ic_at_mass", mass |-> mass],
                   get_ic_at_mass(im, mass))

CallGetMassAtIndex ==
    \E index \in Indices :
        MatrixCall([op |-> "get_mass_at_index", index |-> index],
                   get_mass_at_index(im, index))

\* a call of a method of the chromatogram the last query returned
ChromCall(a, r, f) ==
    /\ pc = "done" /\ ret.type = "IonChromatogram"
    /\ arg' = a /\ ret' = r /\ frame' = f
    /\ pc' = "done"
    /\ UNCHANGED <<ia, apex, im, peak, run>>

CallGetIntensityAtIndex ==
    \E ix \in Indices :
        ChromCall([op |-> "get_intensity_at_index", ix |-> ix],
                  get_intensity_at_index(ret, ix), [self |-> ret])

CallGetTimeAtIndex ==
    \E ix \in Indices :
        ChromCall([op |-> "get_time_at_index", ix |-> ix],
                  get_time_at_index(ret, ix), [self |-> ret])

CallWrite ==
    \E minutes \in BOOLEAN :
        LET w == write(ret, minutes)
        IN  ChromCall([op |-> "write", minutes |-> minutes], PyNone,
                      [self |-> ret, after |-> w.self,
                       time_list |-> w.time_list, file |-> w.file])

\* the attributes of a returned value that hold a list
ListAttributes(v) ==
    IF v.type = "list" THEN {"items"}
    ELSE IF v.type = "IonChromatogram" THEN {"ia", "time_list"}
    ELSE IF v.type = "MassSpectrum" THEN {"mass_list", "mass_spec"}
    ELSE {}
ListAt(v, a) == IF v.type = "list" THEN v ELSE v[a]

\* another number than x
Changed(a, x) == IF a = "time_list" THEN Rat(x.num + x.den, x.den) ELSE x + 1

\* the matrix after the list l was written: only a list that is the
\* matrix's own changes it
Written(self, l) ==
    IF l.id.field = "time_list" THEN [self EXCEPT !.time_list = l.items]
    ELSE IF l.id.field = "mass_list" THEN [self EXCEPT !.mass_list = l.items]
    ELSE IF l.id.field = "intensity_matrix"
         THEN [self EXCEPT !.intensity_matrix[l.id.row + 1] = l.items]
    ELSE self

\* the caller assigns to one element of a list of the returned value
MutateReturned ==
    /\ pc = "done" /\ arg.op # "mutate"
    /\ \E a \in ListAttributes(ret) :
        \E i \in 1..Len(ListAt(ret, a).items) :
            LET l == [ListAt(ret, a) EXCEPT !.items[i] = Changed(a, @)]
            IN  /\ ret' = IF ret.type = "list" THEN l
                          ELSE [ret EXCEPT ![a] = l]
                /\ im' = Written(im, l)
                /\ arg' = [op |-> "mutate", of |-> arg.op,
                           attribute |-> a, index |-> i - 1]
    /\ pc' = "done"
    /\ UNCHANGED <<ia, apex, peak, run, frame>>

NextMatrix ==
    \/ ConstructMatrix
    \/ CallGetMassList \/ CallGetScanAtIndex \/ CallGetMsAtIndex
    \/ CallGetIcAtIndex \/ CallGetIcAtMass \/ CallGetMassAtIndex
    \/ CallGetIntensityAtIndex \/ CallGetTimeAtIndex \/ CallWrite
    \/ MutateReturned

SpecMatrix == InitMatrix /\ [][NextMatrix]_vars

----------------------------------------------------------------------------
(* Properties of IntensityMatrix, MassSpectrum and IonChromatogram *)

Built == im.type = "IntensityMatrix"
Returned(op) == pc = "done" /\ arg.op = op

\* C13 as stated: on every constructed matrix get_ic_at_mass(None) returns
\* the total-ion chromatogram, an IonChromatogram of length R flagged as
\* total whose entry i is the summed intensity of scan i, and does not end
\* in an error
C13_NoMassGivesTic ==
    (Returned("get_ic_at_mass") /\ arg.mass = PyNone)
    => /\ ret.type = "IonChromatogram"
       /\ ret.mass = PyNone
       /\ Len(ret.ia.items) = Len(im.time_list)
       /\ \A i \in 1..Len(im.time_list) :
             ret.ia.items[i] = SumSeq(im.intensity_matrix[i])

\* C14 as stated: for every index in [0, R) get_ms_at_index returns a
\* MassSpectrum whose mass list is the matrix's mass list and whose
\* intensity list is row index of the grid, of equal lengths; for every
\* index outside [0, R) it fails
C14_SpectrumAtIndex ==
    Returned("get_ms_at_index")
    => IF 0 <= arg.index /\ arg.index < Len(im.intensity_matrix)
       THEN /\ ret.type = "MassSpectrum"
            /\ ret.mass_list.items = im.mass_list
            /\ ret.mass_spec.items = im.intensity_matrix[arg.index + 1]
            /\ Len(ret.mass_list.items) = Len(ret.mass_spec.items)
       ELSE ret = PyError

\* some row of the grid has another length than the mass list
Ragged(mass_list, grid) ==
    \E i \in 1..Len(grid) : Len(grid[i]) # Len(mass_list)

\* C15 as stated: every constructed matrix has len(time_list) rows and
\* every row, not only the first, has len(mass_list) entries; construction
\* from a grid with any row of a different length fails
C15_GridIsRectangular ==
    /\ Built => /\ Len(im.intensity_matrix) = Len(im.time_list)
                /\ ~Ragged(im.mass_list, im.intensity_matrix)
    /\ (pc \in {"ready", "failed"}
            /\ Ragged(arg.mass_list, arg.intensity_matrix))
        => im = PyError

C18_BadIndexFails ==
    /\ (pc = "done"
            /\ arg.op \in {"get_ic_at_index", "get_mass_at_index"}
            /\ (arg.index < 0 \/ arg.index >= Len(im.mass_list)))
        => ret = PyError
    /\ (Returned("get_scan_at_index")
            /\ (arg.index < 0 \/ arg.index >= Len(im.intensity_matrix)))
        => ret = PyError
    /\ (Returned("get_intensity_at_index")
            /\ (arg.ix < 0 \/ arg.ix >= Len(frame.self.ia.items)))
        => ret = PyError
    /\ (Returned("get_time_at_index")
            /\ (arg.ix < 0 \/ arg.ix >= Len(frame.self.time_list.items)))
        => ret = PyError

\* index -1 of a grid of two full columns: Python would read the last
\* column, the call ends in error
C18_Witness ==
    /\ Returned("get_ic_at_index") /\ arg.index = -1
    /\ Len(im.mass_list) = 2 /\ ~Ragged(im.mass_list, im.intensity_matrix)
    /\ ret = PyError

\* the time line i must carry: time_list[i], over 60 if minutes
TimeWritten(t, minutes) == IF minutes THEN Rat(t.num, 60 * t.den) ELSE t

\* C19: write emits exactly N lines for N samples; line i carries
\* time_list[i] (divided by 60 when minutes is true, to four decimals) and
\* intensity i, in index order; the stored time list is unchanged after the
\* call, also when minutes is true
C19_WriteLeavesTimeList ==
    Returned("write")
    => /\ Len(frame.file) = Len(frame.self.ia.items)
       /\ \A i \in 1..Len(frame.file) :
             LET t == TimeWritten(frame.self.time_list.items[i], arg.minutes)
             IN  /\ 2 * Abs(frame.file[i].time * t.den - 10000 * t.num)
                        <= t.den
                 /\ frame.file[i].intensity = frame.self.ia.items[i]
       /\ frame.after.time_list = frame.self.time_list
       /\ frame.after = frame.self

\* two samples at 30 s and 60 s written in minutes: 0.5000 and 1.0000
C19_Witness ==
    /\ Returned("write") /\ arg.minutes
    /\ Len(frame.file) = 2
    /\ frame.file[1].time = 5000 /\ frame.file[2].time = 10000
    /\ frame.after.time_list.items = <<Rat(30, 1), Rat(60, 1)>>

----------------------------------------------------------------------------
(* src/GCMS/Class.py: construction of Scan and GCMS_data *)

\* Scan.__init__: an empty list fails at its [0]
Scan(mass_list, intensity_list) ==
    IF mass_list = <<>> \/ intensity_list = <<>> THEN PyError
    ELSE [type |-> "Scan",
          mass_list |-> mass_list,
          intensity_list |-> intensity_list,
          min_mass |-> MinOf(mass_list),
          max_mass |-> MaxOf(mass_list)]

\* a < b on exact numbers with positive denominators
RatLess(a, b) == a.num * b.den < b.num * a.den

RECURSIVE min_time(_)
\* min(time_list)
min_time(s) ==
    IF Len(s) = 1 THEN s[1]
    ELSE LET m == min_time(Tail(s))
         IN  IF RatLess(m, Head(s)) THEN m ELSE Head(s)
RECURSIVE max_time(_)
\* max(time_list)
max_time(s) ==
    IF Len(s) = 1 THEN s[1]
    ELSE LET m == max_time(Tail(s))
         IN  IF RatLess(Head(s), m) THEN m ELSE Head(s)

\* mutant: the first intensity of every scan instead of the sum
calc_tic_first_intensity(time_list, scan_list) ==
    IonChromatogram(
        PyList(New(1), [i \in 1..Len(scan_list) |->
                           scan_list[i].intensity_list[1]]),
        PyList(New(2), time_list),
        PyNone)

\* GCMS_data.__calc_tic: the summed intensity of every scan over a deep
\* copy of the time list
calc_tic(time_list, scan_list) ==
    IonChromatogram(
        PyList(New(1), [i \in 1..Len(scan_list) |->
                           SumSeq(scan_list[i].intensity_list)]),
        PyList(New(2), time_list),
        PyNone)

\* GCMS_data.__init__ with __set_min_max_mass and __calc_tic: an empty
\* list fails at its [0], an error in IonChromatogram ends the construction
GCMS_data_init(time_list, scan_list) ==
    IF time_list = <<>> \/ scan_list = <<>> THEN PyError
    ELSE LET tic == calc_tic(time_list, scan_list)
         IN  IF tic = PyError THEN PyError
             ELSE [type |-> "GCMS_data",
                   time_list |-> time_list,
                   min_rt |-> min_time(time_list),
                   max_rt |-> max_time(time_list),
                   scan_list |-> scan_list,
                   min_mass |-> MinOf([i \in 1..Len(scan_list) |->
                                          scan_list[i].min_mass]),
                   max_mass |-> MaxOf([i \in 1..Len(scan_list) |->
                                          scan_list[i].max_mass]),
                   tic |-> tic]

\* scans over 1..MaxCols masses, and lists of 0..MaxRows of them
Scans ==
    UNION {{Scan(MatrixMasses(c), il) : il \in [1..c -> CellIntensities]} :
              c \in 1..MaxCols}
ScanLists == {<<>>} \cup SeqsUpTo(Scans, MaxRows)

InitData ==
    /\ \E n \in 0..MaxRows, sl \in ScanLists :
          arg = [op |-> "GCMS_data",
                 time_list |-> MatrixTimes(n),
                 scan_list |-> sl]
    /\ run = PyNone
    /\ ia = None /\ apex = None /\ peak = None /\ im = None
    /\ pc = "new" /\ frame = None /\ ret = None

\* run = GCMS_data(time_list, scan_list)
ConstructRun ==
    /\ pc = "new"
    /\ run' = GCMS_data_init(arg.time_list, arg.scan_list)
    /\ pc' = IF run'.type = "GCMS_data" THEN "ready" ELSE "failed"
    /\ UNCHANGED <<ia, apex, im, peak, arg, frame, ret>>

NextData == ConstructRun

SpecData == InitData /\ [][NextData]_vars

----------------------------------------------------------------------------
(* Properties of the construction of GCMS_data *)

\* C16: every constructed GCMS_data has a non-empty time list and a
\* non-empty scan list of the same length; construction with time_list and
\* scan_list of different lengths ends in an error
C16_TimesMatchScans ==
    /\ run.type = "GCMS_data"
        => /\ run.time_list # <<>> /\ run.scan_list # <<>>
           /\ Len(run.time_list) = Len(run.scan_list)
    /\ (pc # "new" /\ Len(arg.time_list) # Len(arg.scan_list))
        => run = PyError

\* two times and one scan, both lists acceptable on their own: the
\* chromatogram of the summed intensities cannot be built
C16_Witness ==
    /\ pc = "failed" /\ run = PyError
    /\ Len(arg.time_list) = 2 /\ Len(arg.scan_list) = 1

----------------------------------------------------------------------------
(* The smoothed edge of half_area *)

\* the points of the window ia[p : p+3] that exist, and their sum
PointsPresent(h, p) == Min(wide, Len(h) - p)
PresentSum(h, p) == WindowSum(h, p, p + PointsPresent(h, p) - 1)

\* C20 as stated: the smoothed edge is the mean of the available points
\* of the window: with fewer than 3 points left the sum is divided by the
\* number of points present, not by 3  (edge = frame.edge3 / wide is the
\* edge at position frame.index, the last one computed)
C20_EdgeIsMeanOfPresent ==
    HalfAreaDone
    => frame.edge3 * PointsPresent(ia, frame.index)
           = wide * PresentSum(ia, frame.index)

\* C20, amended: the smoothed edge at every position is the sum of the
\* available points of the window divided by 3, also when fewer than 3
\* points are present: wide * edge is the sum of the points present, for
\* the last edge and for the one before it
C20_EdgeIsSumOverWide ==
    HalfAreaDone
    => /\ frame.edge3 = PresentSum(ia, frame.index)
       /\ frame.index >= 1
            => frame.old_edge3 = PresentSum(ia, frame.index - 1)

\* the search ended on a window of fewer than 3 points that are not all 0
C20_Witness ==
    /\ HalfAreaDone
    /\ PointsPresent(ia, frame.index) < wide
    /\ frame.edge3 > 0
    /\ frame.index >= 1

----------------------------------------------------------------------------
(* src/GCMS/Class.py: GCMS_data.get_tic, called again and again *)

\* most get_tic calls made on one run
MaxCalls == 3

\* GCMS_data.get_tic: return self.__tic
get_tic(self) == self.tic

\* run.get_tic(); frame counts the calls and keeps what the call before
\* returned
CallGetTic ==
    /\ pc \in {"ready", "done"}
    /\ pc = "done" => frame.calls < MaxCalls
    /\ arg' = [op |-> "get_tic"]
    /\ ret' = get_tic(run)
    /\ frame' = IF pc = "ready" THEN [calls |-> 1, previous |-> PyNone]
                ELSE [calls |-> frame.calls + 1, previous |-> ret]
    /\ pc' = "done"
    /\ UNCHANGED <<ia, apex, im, peak, run>>

NextTic == ConstructRun \/ CallGetTic

SpecTic == InitData /\ [][NextTic]_vars

GetTicDone == pc = "done" /\ arg.op = "get_tic"

\* C21: the total-ion chromatogram of a run has exactly one entry per
\* scan, entry i the sum of scan i's intensities, paired with the run's
\* time list in the same order; a repeated get_tic call returns the same
\* values as the call before
C21_TicSumsEachScan ==
    GetTicDone
    => /\ ret.type = "IonChromatogram" /\ ret.mass = PyNone
       /\ Len(ret.ia.items) = Len(run.scan_list)
       /\ \A i \in 1..Len(run.scan_list) :
             ret.ia.items[i] = SumSeq(run.scan_list[i].intensity_list)
       /\ ret.time_list.items = run.time_list
       /\ frame.calls > 1 => ret = frame.previous

\* a second call on a run of two scans, the first with intensities 1 and 1
C21_Witness ==
    /\ GetTicDone /\ frame.calls = 2
    /\ Len(run.scan_list) = 2
    /\ run.scan_list[1].intensity_list = <<1, 1>>
    /\ ret.ia.items[1] = 2

----------------------------------------------------------------------------
(* src/Peak/Function.py: what ion_area and half_area leave of the caller's
   list, and a second call with the same arguments *)

\* the caller's list object
caller_list(c) == PyList(Ref("ia", 0), c)

\* mutant: the slice is a view of the caller's list
left_slice_view(c, a) == PyList(Ref("ia", 0), Slice(c, 0, a + 1))

\* lhs = ia[:apex+1]: the slice of a list is a new list
left_slice(c, a) == PyList(New(1), Slice(c, 0, a + 1))

\* the caller's list after ion_area: lhs.reverse() reverses lhs in place,
\* nothing else is assigned to
ion_area_list_after(c, a) ==
    LET lhs == left_slice(c, a)
    IN  IF lhs.id = caller_list(c).id
        THEN Reverse(lhs.items) \o Slice(c, a + 1, Len(c))
        ELSE c

\* the caller's list after half_area: ia is only read
half_area_list_after(h) == h

InitPure ==
    /\ \E c \in GeneralInputs : ia = c.ia /\ apex = c.apex
    /\ im = None /\ peak = None /\ run = None
    /\ pc = "ready" /\ arg = NoArg /\ frame = None /\ ret = None

\* ion_area(ia, apex, max_bound, tol), the caller's list as it is after
FirstIonArea ==
    /\ pc = "ready"
    /\ \E mb \in MaxBounds, t \in Tol2s :
        /\ arg' = [op |-> "ion_area", max_bound |-> mb, tol2 |-> t]
        /\ ret' = ion_area(ia, apex, mb, t)
    /\ ia' = ion_area_list_after(ia, apex)
    /\ frame' = [ia_before |-> ia, first |-> PyNone]
    /\ pc' = "done"
    /\ UNCHANGED <<apex, im, peak, run>>

\* half_area(ia, max_bound, tol)
FirstHalfArea ==
    /\ pc = "ready"
    /\ \E mb \in MaxBounds, t \in Tol2s :
        /\ arg' = [op |-> "half_area", max_bound |-> mb, tol2 |-> t]
        /\ ret' = half_area(ia, mb, t)
    /\ ia' = half_area_list_after(ia)
    /\ frame' = [ia_before |-> ia, first |-> PyNone]
    /\ pc' = "done"
    /\ UNCHANGED <<apex, im, peak, run>>

\* the same call once more, on the list as the first call left it
SecondCall ==
    /\ pc = "done"
    /\ ret' = IF arg.op = "ion_area"
              THEN ion_area(ia, apex, arg.max_bound, arg.tol2)
              ELSE half_area(ia, arg.max_bound, arg.tol2)
    /\ ia' = IF arg.op = "ion_area"
             THEN ion_area_list_after(ia, apex)
             ELSE half_area_list_after(ia)
    /\ frame' = [ia_before |-> frame.ia_before, first |-> ret]
    /\ pc' = "again"
    /\ UNCHANGED <<apex, im, peak, run, arg>>

NextPure == FirstIonArea \/ FirstHalfArea \/ SecondCall

SpecPure == InitPure /\ [][NextPure]_vars

----------------------------------------------------------------------------
(* src/Peak/Function.py: ion_area step by step, one state per turn of the
   growth loop of half_area *)

\* mutant: the index is returned as the loop left it
returned_index_not_decremented(index) == index

\* index -= 1; return area, index, shared
returned_index(index) == index - 1

\* half_area up to the while statement: the locals on entry of the loop;
\* l holds the result for the left half once there is one
half_area_entry(h, max_bound, side, l) ==
    [side |-> side, h |-> h, l |-> l,
     area |-> h[1],
     edge3 |-> edge3_at(h, 0),
     old_edge3 |-> initial_old_edge3(edge3_at(h, 0)),
     index |-> 1,
     limit |-> search_limit(h, max_bound),
     iterations |-> 0]

\* what half_area returns from the locals after the loop
half_area_return(f) ==
    [area |-> f.area, index |-> returned_index(f.index),
     shared |-> shared_flag(f.edge3, f.old_edge3)]

\* ion_area(ia, apex, max_bound, tol) enters half_area(lhs, ..)
EnterIonArea ==
    /\ pc = "ready"
    /\ \E mb \in MaxBounds, t \in Tol2s :
        /\ arg' = [op |-> "ion_area", max_bound |-> mb, tol2 |-> t]
        /\ frame' = half_area_entry(left_half(ia, apex), mb, "lhs", PyNone)
    /\ pc' = "loop"
    /\ UNCHANGED <<ia, apex, im, peak, run, ret>>

\* one turn of the while loop
LoopBody ==
    /\ pc = "loop"
    /\ loop_test(frame.area, frame.edge3, frame.old_edge3, frame.index,
                 frame.limit, arg.tol2)
    /\ frame' = [frame EXCEPT !.old_edge3 = frame.edge3,
                              !.area = @ + frame.h[frame.index + 1],
                              !.edge3 = edge3_at(frame.h, frame.index),
                              !.index = @ + 1,
                              !.iterations = @ + 1]
    /\ UNCHANGED <<ia, apex, im, peak, run, pc, arg, ret>>

\* the loop test fails: half_area returns; after the left half ion_area
\* enters half_area(rhs, ..), after the right half it returns its tuple
LoopExit ==
    /\ pc = "loop"
    /\ ~loop_test(frame.area, frame.edge3, frame.old_edge3, frame.index,
                  frame.limit, arg.tol2)
    /\ LET r == half_area_return(frame)
       IN  IF frame.side = "lhs"
           THEN /\ frame' = half_area_entry(right_half(ia, apex),
                                            arg.max_bound, "rhs", r)
                /\ pc' = "loop"
                /\ ret' = ret
           ELSE /\ frame' = frame
                /\ pc' = "done"
                /\ ret' = [area |-> total_area(frame.l.area, r.area,
                                               ia[apex + 1]),
                           left |-> frame.l.index, right |-> r.index,
                           l_share |-> frame.l.shared, r_share |-> r.shared]
    /\ UNCHANGED <<ia, apex, im, peak, run, arg>>

\* before the call: a channel and an apex in it, nothing returned yet
InitLoop ==
    /\ \E c \in GeneralInputs : ia = c.ia /\ apex = c.apex
    /\ im = None /\ peak = None /\ run = None
    /\ pc = "ready" /\ arg = NoArg /\ frame = PyNone /\ ret = PyNone

NextLoop == EnterIonArea \/ LoopBody \/ LoopExit

SpecLoop == InitLoop /\ [][NextLoop]_vars

\* a call that has started keeps running
SpecLoopFair == SpecLoop /\ WF_vars(NextLoop)

\* the loop has made at most len(h) - 1 turns, and what half_area returns
\* for the half h is an offset in [0, len(h) - 1]
LoopInside ==
    /\ pc = "loop" =>
        /\ frame.iterations <= Len(frame.h) - 1
        /\ frame.side = "rhs" => frame.l.index \in 0..apex
    /\ pc = "done" =>
        /\ frame.iterations <= Len(frame.h) - 1
        /\ WindowInside

\* C23: for every non-empty intensity list the growth loop of half_area
\* ends after at most len(ia) - 1 turns and returns an offset in
\* [0, len(ia) - 1]; so ion_area with apex in [0, len(ia) - 1] returns
\* left <= apex and right <= len(ia) - 1 - apex, and the window
\* [apex - left, apex + right] lies inside the channel
C23_LoopEndsInsideChannel ==
    /\ []LoopInside
    /\ <>(pc = "done")

\* both loops ran to the ends of the channel: left = apex and
\* right = len(ia) - 1 - apex, in the most turns the list allows
C23_Witness ==
    /\ pc = "done"
    /\ apex >= 2 /\ ret.left = apex
    /\ ret.right = Len(ia) - 1 - apex /\ ret.right >= 1
    /\ frame.iterations = Len(frame.h) - 1

----------------------------------------------------------------------------
(* The bounded search of half_area against the unbounded one *)

\* what half_area returns for the same list and tol with max_bound = 0
Unbounded == half_area(ia, 0, arg.tol2)

\* C24: for every non-empty list, every tol and every k >= 1 the offset
\* half_area(ia, k, tol) returns is min(k, the offset half_area(ia, 0, tol)
\* returns) and its area is the sum of ia[0 .. that offset]; with
\* intensities that are not negative the bounded area is never larger than
\* the unbounded one
C24_BoundedIsCutUnbounded ==
    (HalfAreaDone /\ arg.max_bound >= 1)
    => /\ ret.index = Min(arg.max_bound, Unbounded.index)
       /\ ret.area = WindowSum(ia, 0, ret.index)
       /\ ret.area <= Unbounded.area

\* the bound cuts the search: the unbounded search goes further and sums
\* more
C24_Witness ==
    /\ HalfAreaDone /\ arg.max_bound >= 1
    /\ ret.index = arg.max_bound
    /\ Unbounded.index > arg.max_bound
    /\ ret.area < Unbounded.area

====
